---- MODULE Spec2Model ----
(***************************************************************************)
(* Blockly.FieldSlider (core/field_slider.js): a numeric field whose       *)
(* inline editor shows a text input and, for a finite range, a             *)
(* goog.ui.Slider rendered into the shared Blockly.WidgetDiv.              *)
(*                                                                         *)
(* Texts are sequences of one-character tokens (plus the token "Infinity", *)
(* which the O->0 replacement cannot touch).  Numbers are records so that  *)
(* NaN and the two infinities are values of the same type as the finite    *)
(* ones.  Finite numbers are integers: the input alphabet has no decimal   *)
(* point and precisions are integers.                                      *)
(***************************************************************************)
EXTENDS Integers, Sequences, FiniteSets, TLC

VARIABLES
  text_,            \* per field: Field.text_, the committed value (getValue())
  min_,             \* per field: FieldNumber.min_
  max_,             \* per field: FieldNumber.max_
  precision_,       \* per field: FieldNumber.precision_
  validator_,       \* per field: Field.validator_ (kind of user validator)
  sourceBlock_,     \* per field: TRUE while Field.sourceBlock_ is non-null
  slider_,          \* per field: this.slider_ (0 = undefined, else slider id)
  sliders,          \* every goog.ui.Slider constructed so far, by id
  listeners,        \* goog.events registry: the registered <<slider id, type>>
  changeEventKey_,  \* Blockly.FieldSlider.changeEventKey_ (0 = undefined)
  focusEventKey_,   \* Blockly.FieldSlider.focusEventKey_ (0 = undefined)
  owner_,           \* Blockly.WidgetDiv.owner_
  divSlider,        \* the slider rendered in Blockly.WidgetDiv.DIV (0 = none)
  htmlInput_,       \* Blockly.FieldTextInput.htmlInput_
  focus,            \* which element has the keyboard focus
  opened,           \* per field: showInlineEditor_ ran on it (history)
  last,             \* the operation handled last (history)
  call              \* a call of a pure function: its input and result

vars == <<text_, min_, max_, precision_, validator_, sourceBlock_, slider_,
          sliders, listeners, changeEventKey_, focusEventKey_, owner_,
          divSlider, htmlInput_, focus, opened, last, call>>

----------------------------------------------------------------------------
\* Bounds of the model.

\* Sliders constructed in one behaviour (each finite-range open makes one).
MaxSliders == 2
\* Length of the texts classValidator is applied to exhaustively.
MaxTextLen == 3

\* Two slider fields.  The user edits the first one and changes its range;
\* the second one, of a finite range, is the other slider field of the
\* workspace: it is opened, closed and disposed.
Fields == {"f1", "f2"}
EditedFields == {"f1"}
NoField == "none"

----------------------------------------------------------------------------
\* JavaScript numbers.

Fin(n) == [k |-> "fin", n |-> n]
Infinity == [k |-> "inf", n |-> 1]
NegInfinity == [k |-> "inf", n |-> -1]
NaN == [k |-> "nan", n |-> 0]

isNaN(x) == x.k = "nan"
isFinite(x) == x.k = "fin"

\* Math.round(n / p) for integers n and p # 0: floor(n/p + 1/2).
MathRound(n, p) ==
  IF p > 0 THEN (2 * n + p) \div (2 * p)
  ELSE ((0 - 2 * n) - p) \div (0 - 2 * p)

----------------------------------------------------------------------------
\* JavaScript strings and the conversions between strings and numbers.

\* null, as a text no sequence of alphabet tokens equals.
NULL == <<"null">>

DigitChars == <<"0", "1", "2", "3", "4", "5", "6", "7", "8", "9">>
IsDigit(c) == c \in {"0", "1", "2", "3", "4", "5", "6", "7", "8", "9"}
DigitVal(c) == (CHOOSE i \in 1..10 : DigitChars[i] = c) - 1

RECURSIVE NatToStr(_)
NatToStr(n) ==
  IF n < 10 THEN <<DigitChars[n + 1]>>
  ELSE NatToStr(n \div 10) \o <<DigitChars[(n % 10) + 1]>>

\* String(x) for a number x.
String(x) ==
  CASE x.k = "nan" -> <<"N", "a", "N">>
    [] x.k = "inf" -> IF x.n = 1 THEN <<"Infinity">> ELSE <<"-", "Infinity">>
    [] OTHER -> IF x.n < 0 THEN <<"-">> \o NatToStr(0 - x.n) ELSE NatToStr(x.n)

RECURSIVE SkipWhite(_)
SkipWhite(s) ==
  IF s # <<>> /\ Head(s) = " " THEN SkipWhite(Tail(s)) ELSE s

RECURSIVE DigitPrefix(_)
DigitPrefix(s) ==
  IF s # <<>> /\ IsDigit(Head(s)) THEN <<Head(s)>> \o DigitPrefix(Tail(s))
  ELSE <<>>

RECURSIVE DigitsVal(_)
DigitsVal(d) ==
  IF d = <<>> THEN 0
  ELSE 10 * DigitsVal(SubSeq(d, 1, Len(d) - 1)) + DigitVal(d[Len(d)])

\* parseFloat(s): leading white space, an optional sign, then Infinity or
\* the longest run of digits; NaN when there is neither.
parseFloat(s) ==
  LET t == SkipWhite(s)
      neg == t # <<>> /\ Head(t) = "-"
      u == IF neg THEN Tail(t) ELSE t
      d == DigitPrefix(u)
  IN  IF u # <<>> /\ Head(u) = "Infinity"
        THEN (IF neg THEN NegInfinity ELSE Infinity)
      ELSE IF d = <<>> THEN NaN
      ELSE Fin(IF neg THEN 0 - DigitsVal(d) ELSE DigitsVal(d))

\* text.replace(/O/ig, '0')
RECURSIVE ReplaceO(_)
ReplaceO(s) ==
  IF s = <<>> THEN <<>>
  ELSE <<IF Head(s) \in {"O", "o"} THEN "0" ELSE Head(s)>> \o ReplaceO(Tail(s))

\* text.replace(/,/g, '')
RECURSIVE StripCommas(_)
StripCommas(s) ==
  IF s = <<>> THEN <<>>
  ELSE (IF Head(s) = "," THEN <<>> ELSE <<Head(s)>>) \o StripCommas(Tail(s))

----------------------------------------------------------------------------
\* Blockly.FieldSlider.prototype.classValidator

\* classValidator without the rounding to a multiple of the precision.
classValidatorUnrounded(text, precision) ==
  IF text = NULL THEN NULL
  ELSE LET t2 == StripCommas(ReplaceO(text))
           n == parseFloat(IF t2 = <<>> THEN <<"0">> ELSE t2)
       IN  IF isNaN(n) THEN NULL ELSE String(n)

\* classValidator without the replacement of the letters O and o by 0.
classValidatorKeepsO(text, precision) ==
  IF text = NULL THEN NULL
  ELSE LET t2 == StripCommas(text)
           n == parseFloat(IF t2 = <<>> THEN <<"0">> ELSE t2)
       IN  IF isNaN(n) THEN NULL
           ELSE IF precision # 0 /\ isFinite(n)
             THEN String(Fin(MathRound(n.n, precision) * precision))
           ELSE String(n)

\* The body of classValidator, given the value of this.precision_.
classValidatorBody(text, precision) ==
  IF text = NULL THEN NULL
  ELSE LET t1 == ReplaceO(text)
           t2 == StripCommas(t1)
           n == parseFloat(IF t2 = <<>> THEN <<"0">> ELSE t2)
       IN  IF isNaN(n) THEN NULL
           ELSE IF precision # 0 /\ isFinite(n)
             THEN String(Fin(MathRound(n.n, precision) * precision))
           ELSE String(n)

\* classValidator as Blockly.FieldNumber has it: the number is clamped to
\* [min_, max_].
classValidatorClamped(this, text) ==
  LET r == classValidatorBody(text, precision_[this])
      n == parseFloat(r)
  IN  IF r = NULL \/ ~isFinite(n) THEN r
      ELSE IF isFinite(min_[this]) /\ n.n < min_[this].n THEN String(min_[this])
      ELSE IF isFinite(max_[this]) /\ n.n > max_[this].n THEN String(max_[this])
      ELSE r

\* classValidator called on the field this.
classValidator(this, text) == classValidatorBody(text, precision_[this])

----------------------------------------------------------------------------
\* The inputs the operations are tried with.

\* The user validators a field can be given: none, and one that rejects
\* every value (returns null).
Validators == {"none", "reject"}

\* setConstraints arguments: the default (unbounded) range and a finite one.
Ranges == {<<NegInfinity, Infinity>>, <<Fin(0), Fin(10)>>}
Precisions == {0, 5}

\* Positions the user drags the slider thumb to, when within its range.
DragValues == {7}
\* Texts the user types into the text input.
TextInputs == {<<"7">>, <<"5", "0">>, <<"a">>}

NoInput ==
  [exists |-> FALSE, value |-> <<>>, oldValue_ |-> NULL, defaultValue |-> <<>>]
NoCall == [fn |-> "none", f |-> NoField, text |-> <<>>, result |-> <<>>, done |-> TRUE]
NoOp == [op |-> "init", f |-> NoField]

----------------------------------------------------------------------------
\* The base classes (Blockly.Field, Blockly.FieldTextInput,
\* Blockly.FieldNumber), Blockly.WidgetDiv, goog.events and goog.ui.Slider.

\* A user validator applied to text: null, a replacement, or the text.
userValidator(kind, text) ==
  IF kind = "reject" THEN NULL ELSE text

\* Blockly.Field.prototype.callValidator: the class validator, then the
\* user validator; null as soon as one of them rejects.
callValidator(f, text) ==
  LET classResult == classValidator(f, text)
  IN  IF classResult = NULL THEN NULL
      ELSE userValidator(validator_[f], classResult)

\* Blockly.FieldTextInput.prototype.setValue: the new text_ of field f, whose
\* text_ is cur.  An attached field validates; an invalid value is kept as
\* typed; null changes nothing.
setValue(f, cur, newValue) ==
  IF newValue = NULL THEN cur
  ELSE LET validated == IF sourceBlock_[f] THEN callValidator(f, newValue)
                        ELSE NULL
       IN  IF validated # NULL THEN validated ELSE newValue

\* The function FieldTextInput.prototype.widgetDispose_ returns, which
\* WidgetDiv.hide runs for the owner: the text the close commits.
widgetDispose_(f, input) ==
  LET text == input.value
      text1 == callValidator(f, text)
  IN  IF ~sourceBlock_[f] THEN text
      ELSE IF text1 = NULL THEN input.defaultValue
      ELSE text1

\* Blockly.WidgetDiv.hide, when the text input is input: text_ once the
\* owner's editor (if any) is closed.
hideText(input) ==
  IF owner_ = NoField THEN text_
  ELSE [text_ EXCEPT ![owner_] = widgetDispose_(owner_, input)]

\* Blockly.WidgetDiv.hide: the owner's edit is saved, the container is
\* emptied and has no owner.
hide(input) ==
  /\ text_' = hideText(input)
  /\ owner_' = NoField
  /\ htmlInput_' = NoInput
  /\ divSlider' = 0
  /\ focus' = "none"

\* Blockly.WidgetDiv.hideIfOwner
hideIfOwner(oldOwner) ==
  IF owner_ = oldOwner THEN hide(htmlInput_)
  ELSE UNCHANGED <<text_, owner_, htmlInput_, divSlider, focus>>

\* goog.ui.Slider after setMinimum(lo), setMaximum(hi) on a new slider: the
\* range model's initial value 0 is moved into the range.
newSliderValue(lo, hi) == IF 0 < lo THEN lo ELSE IF hi < 0 THEN hi ELSE 0

\* goog.ui.SliderBase.prototype.setValue: a value outside [minimum, maximum]
\* (NaN included) is ignored and fires no CHANGE event.
sliderAccepts(s, x) ==
  /\ isFinite(x)
  /\ s.min <= x.n
  /\ x.n <= s.max

sliderSetValue(s, x) == IF sliderAccepts(s, x) THEN [s EXCEPT !.value = x.n] ELSE s

----------------------------------------------------------------------------
\* Blockly.FieldSlider

\* The CHANGE listener without its test of val against null: setValue(null)
\* changes nothing, and the text input shows null as the empty text.
changeListenerUnguarded(thisField, v, tx, input, fc) ==
  LET val == IF sourceBlock_[thisField]
               THEN callValidator(thisField, String(Fin(v)))
             ELSE String(Fin(v))
  IN  [text_ |-> [tx EXCEPT ![thisField] = setValue(thisField, @, val)],
       htmlInput_ |-> [input EXCEPT !.value = IF val = NULL THEN <<>> ELSE val],
       focus |-> "htmlInput"]

\* The CHANGE listener showInlineEditor_ registers, run for a slider of
\* thisField whose value is v, when the fields' texts are tx, the text
\* input is input and the focus is on fc.
changeListener(thisField, v, tx, input, fc) ==
  LET val0 == IF v = 0 THEN 0 ELSE v  \* event.target.getValue() || 0
      val == IF sourceBlock_[thisField]
               THEN callValidator(thisField, String(Fin(val0)))
             ELSE String(Fin(val0))
  IN  IF val # NULL
        THEN [text_ |-> [tx EXCEPT ![thisField] = setValue(thisField, @, val)],
              htmlInput_ |-> [input EXCEPT !.value = val],
              focus |-> "htmlInput"]
      ELSE [text_ |-> tx, htmlInput_ |-> input, focus |-> fc]

\* goog.events dispatching CHANGE on slider id: the listener runs if it is
\* still registered.
dispatchChange(id, v, tx, input, fc) ==
  IF <<id, "change">> \in listeners
    THEN changeListener(sliders[id].field, v, tx, input, fc)
  ELSE [text_ |-> tx, htmlInput_ |-> input, focus |-> fc]

\* showInlineEditor_: the base class opens the text input in the container
\* (closing the editor that was open); a finite range adds a slider.
showInlineEditor_(this, opt_quietInput) ==
  /\ sourceBlock_[this]
  /\ LET tx == hideText(htmlInput_)
         input == [exists |-> TRUE, value |-> tx[this], oldValue_ |-> NULL,
                   defaultValue |-> tx[this]]
     IN  /\ text_' = tx
         /\ owner_' = this
         /\ htmlInput_' = input
         /\ IF max_[this] = Infinity \/ min_[this] = NegInfinity
              THEN /\ divSlider' = 0
                   /\ focus' = "none"
                   /\ UNCHANGED <<slider_, sliders, listeners,
                                  changeEventKey_, focusEventKey_>>
            ELSE /\ Len(sliders) < MaxSliders
                 /\ LET id == Len(sliders) + 1
                        parsed == parseFloat(tx[this])
                        value == IF isNaN(parsed) THEN Fin(0) ELSE parsed
                        slider ==
                          [field |-> this, min |-> min_[this].n,
                           max |-> max_[this].n,
                           value |-> newSliderValue(min_[this].n, max_[this].n)]
                    IN  /\ sliders' = Append(sliders, sliderSetValue(slider, value))
                        /\ slider_' = [slider_ EXCEPT ![this] = id]
                        /\ divSlider' = id
                        /\ listeners' = listeners \cup {<<id, "change">>, <<id, "focus">>}
                        /\ changeEventKey_' = id
                        /\ focusEventKey_' = id
                 /\ focus' = IF opt_quietInput THEN "none" ELSE "htmlInput"
  /\ opened' = [opened EXCEPT ![this] = TRUE]
  /\ last' = [op |-> "open", f |-> this]
  /\ UNCHANGED <<min_, max_, precision_, validator_, sourceBlock_, call>>

\* onHtmlInputChange_, after the user made the text input's value t: the
\* base class commits a changed text, then the field's slider is set.
onHtmlInputChange_(this, t) ==
  /\ owner_ = this
  /\ LET changed == t # htmlInput_.oldValue_
         input == [htmlInput_ EXCEPT !.value = t, !.oldValue_ = t]
         tx == IF changed
                 THEN [text_ EXCEPT ![this] = setValue(this, @, t)]
               ELSE text_
         id == slider_[this]
         x == parseFloat(tx[this])
         fires == id # 0 /\ sliderAccepts(sliders[id], x) /\ sliders[id].value # x.n
         after == IF fires THEN dispatchChange(id, x.n, tx, input, "htmlInput")
                  ELSE [text_ |-> tx, htmlInput_ |-> input, focus |-> "htmlInput"]
     IN  /\ sliders' = IF id # 0
                         THEN [sliders EXCEPT ![id] = sliderSetValue(@, x)]
                       ELSE sliders
         /\ text_' = after.text_
         /\ htmlInput_' = after.htmlInput_
         /\ focus' = after.focus
  /\ last' = [op |-> "text", f |-> this]
  /\ UNCHANGED <<min_, max_, precision_, validator_, sourceBlock_, slider_,
                 listeners, changeEventKey_, focusEventKey_, owner_, divSlider,
                 opened, call>>

\* The user drags the thumb of the slider shown in the container to v: the
\* slider dispatches CHANGE.
sliderChange(this, v) ==
  /\ owner_ = this
  /\ divSlider # 0
  /\ sliders[divSlider].min <= v
  /\ v <= sliders[divSlider].max
  /\ v # sliders[divSlider].value
  /\ LET after == dispatchChange(divSlider, v, text_, htmlInput_, focus)
     IN  /\ sliders' = [sliders EXCEPT ![divSlider].value = v]
         /\ text_' = after.text_
         /\ htmlInput_' = after.htmlInput_
         /\ focus' = after.focus
  /\ last' = [op |-> "slider", f |-> this]
  /\ UNCHANGED <<min_, max_, precision_, validator_, sourceBlock_, slider_,
                 listeners, changeEventKey_, focusEventKey_, owner_, divSlider,
                 opened, call>>

\* The slider's root element receives the focus: the FOCUS listener, if
\* still registered, moves it to the text input.
sliderFocus(this) ==
  /\ owner_ = this
  /\ divSlider # 0
  /\ focus' = IF <<divSlider, "focus">> \in listeners THEN "htmlInput" ELSE "slider"
  /\ last' = [op |-> "focus", f |-> this]
  /\ UNCHANGED <<text_, min_, max_, precision_, validator_, sourceBlock_,
                 slider_, sliders, listeners, changeEventKey_, focusEventKey_,
                 owner_, divSlider, htmlInput_, opened, call>>

\* dispose calling WidgetDiv.hide instead of WidgetDiv.hideIfOwner(this).
disposeHidesAlways(this) ==
  /\ sourceBlock_[this]
  /\ listeners' = (listeners \ {<<changeEventKey_, "change">>})
                    \ {<<focusEventKey_, "focus">>}
  /\ hide(htmlInput_)
  /\ sourceBlock_' = [sourceBlock_ EXCEPT ![this] = FALSE]
  /\ validator_' = [validator_ EXCEPT ![this] = "none"]
  /\ last' = [op |-> "dispose", f |-> this]
  /\ UNCHANGED <<min_, max_, precision_, slider_, sliders, changeEventKey_,
                 focusEventKey_, opened, call>>

\* dispose: both class-wide listener keys are unlistened, the container is
\* hidden if this field owns it, then the base class detaches the field.
dispose(this) ==
  /\ sourceBlock_[this]
  /\ listeners' = (listeners \ {<<changeEventKey_, "change">>})
                    \ {<<focusEventKey_, "focus">>}
  /\ hideIfOwner(this)
  /\ sourceBlock_' = [sourceBlock_ EXCEPT ![this] = FALSE]
  /\ validator_' = [validator_ EXCEPT ![this] = "none"]
  /\ last' = [op |-> "dispose", f |-> this]
  /\ UNCHANGED <<min_, max_, precision_, slider_, sliders, changeEventKey_,
                 focusEventKey_, opened, call>>

----------------------------------------------------------------------------
\* What else happens to a field.

\* The editor closes: Enter (or a click elsewhere) saves the edit, Escape
\* puts the text input back to the text the editor opened with.
closeEditor(cancel) ==
  /\ owner_ # NoField
  /\ hide(IF cancel THEN [htmlInput_ EXCEPT !.value = htmlInput_.defaultValue]
          ELSE htmlInput_)
  /\ last' = [op |-> IF cancel THEN "cancel" ELSE "commit", f |-> owner_]
  /\ UNCHANGED <<min_, max_, precision_, validator_, sourceBlock_, slider_,
                 sliders, listeners, changeEventKey_, focusEventKey_, opened,
                 call>>

\* Blockly.FieldNumber.prototype.setConstraints: the constraints are set,
\* then setValue(callValidator(getValue())) runs under the new precision.
setConstraints(this, min, max, precision) ==
  /\ sourceBlock_[this]
  /\ <<min, max, precision>> # <<min_[this], max_[this], precision_[this]>>
  /\ min_' = [min_ EXCEPT ![this] = min]
  /\ max_' = [max_ EXCEPT ![this] = max]
  /\ precision_' = [precision_ EXCEPT ![this] = precision]
  /\ LET validate(text) ==
           LET c == classValidatorBody(text, precision)
           IN  IF c = NULL THEN NULL ELSE userValidator(validator_[this], c)
         u == validate(text_[this])
     IN  text_' = [text_ EXCEPT ![this] =
                     IF u = NULL THEN @
                     ELSE IF validate(u) # NULL THEN validate(u) ELSE u]
  /\ last' = [op |-> "constraints", f |-> this]
  /\ UNCHANGED <<validator_, sourceBlock_, slider_, sliders, listeners,
                 changeEventKey_, focusEventKey_, owner_, divSlider,
                 htmlInput_, focus, opened, call>>

----------------------------------------------------------------------------
\* The fields as constructed with value 0, of one precision and with one
\* validator, and attached to their blocks.
Init ==
  /\ text_ = [f \in Fields |-> <<"0">>]
  /\ min_ = [f \in Fields |-> IF f \in EditedFields THEN NegInfinity ELSE Fin(0)]
  /\ max_ = [f \in Fields |-> IF f \in EditedFields THEN Infinity ELSE Fin(10)]
  /\ \E p \in Precisions : precision_ = [f \in Fields |-> p]
  /\ \E h \in Validators : validator_ = [f \in Fields |-> h]
  /\ sourceBlock_ = [f \in Fields |-> TRUE]
  /\ slider_ = [f \in Fields |-> 0]
  /\ sliders = <<>>
  /\ listeners = {}
  /\ changeEventKey_ = 0
  /\ focusEventKey_ = 0
  /\ owner_ = NoField
  /\ divSlider = 0
  /\ htmlInput_ = NoInput
  /\ focus = "none"
  /\ opened = [f \in Fields |-> FALSE]
  /\ last = NoOp
  /\ call = NoCall

Next ==
  \/ \E f \in Fields, q \in BOOLEAN : showInlineEditor_(f, q)
  \/ \E f \in EditedFields, t \in TextInputs : onHtmlInputChange_(f, t)
  \/ \E f \in EditedFields, v \in DragValues : sliderChange(f, v)
  \/ \E f \in EditedFields : sliderFocus(f)
  \/ \E f \in Fields : dispose(f)
  \/ \E c \in BOOLEAN : closeEditor(c)
  \/ \E f \in EditedFields, r \in Ranges :
       setConstraints(f, r[1], r[2], precision_[f])

Spec == Init /\ [][Next]_vars

----------------------------------------------------------------------------
\* classValidator applied to each text of a bounded set, on a field of each
\* precision.

Alphabet == {"0", "1", "3", "5", "O", "o", ",", "-", "a", " ", "Infinity"}
Examples ==
  { <<"O", "5">>, <<",", "1", ",", "0", "0", "0">>, <<"1", "3">>,
    <<"-", "Infinity">>, <<"1", "2">> }
Texts ==
  UNION {[1..n -> Alphabet] : n \in 0..MaxTextLen} \cup Examples \cup {NULL}
ValidatorPrecisions == {0, 2, 5}

InitValidator ==
  /\ text_ = [f \in Fields |-> <<"0">>]
  /\ min_ = [f \in Fields |-> NegInfinity]
  /\ max_ = [f \in Fields |-> Infinity]
  /\ \E p \in ValidatorPrecisions : precision_ = [f \in Fields |-> p]
  /\ validator_ = [f \in Fields |-> "none"]
  /\ sourceBlock_ = [f \in Fields |-> TRUE]
  /\ slider_ = [f \in Fields |-> 0]
  /\ sliders = <<>>
  /\ listeners = {}
  /\ changeEventKey_ = 0
  /\ focusEventKey_ = 0
  /\ owner_ = NoField
  /\ divSlider = 0
  /\ htmlInput_ = NoInput
  /\ focus = "none"
  /\ opened = [f \in Fields |-> FALSE]
  /\ last = NoOp
  /\ \E t \in Texts :
       call = [fn |-> "classValidator", f |-> "f1", text |-> t,
               result |-> <<>>, done |-> FALSE]

applyClassValidator ==
  /\ ~call.done
  /\ call' = [call EXCEPT !.result = classValidator(call.f, call.text),
                          !.done = TRUE]
  /\ UNCHANGED <<text_, min_, max_, precision_, validator_, sourceBlock_,
                 slider_, sliders, listeners, changeEventKey_, focusEventKey_,
                 owner_, divSlider, htmlInput_, focus, opened, last>>

NextValidator == applyClassValidator

SpecValidator == InitValidator /\ [][NextValidator]_vars

----------------------------------------------------------------------------
\* Construction: new Blockly.FieldSlider(...) and Blockly.FieldSlider.fromJson.

\* A JavaScript value passed as an argument: undefined, a number or a string.
Undefined == [t |-> "undefined", num |-> NaN, str |-> <<>>]
Num(x) == [t |-> "num", num |-> x, str |-> <<>>]
Str(s) == [t |-> "str", num |-> NaN, str |-> s]

RECURSIVE TrimRight(_)
TrimRight(s) ==
  IF s # <<>> /\ s[Len(s)] = " " THEN TrimRight(SubSeq(s, 1, Len(s) - 1)) ELSE s

\* The number a string converts to (as isNaN converts its argument): white
\* space around it is dropped, nothing is 0, and the whole rest has to be a
\* number.
StringToNumber(s) ==
  LET t == TrimRight(SkipWhite(s))
      neg == t # <<>> /\ Head(t) = "-"
      u == IF neg THEN Tail(t) ELSE t
  IN  IF t = <<>> THEN Fin(0)
      ELSE IF u = <<"Infinity">> THEN (IF neg THEN NegInfinity ELSE Infinity)
      ELSE IF u # <<>> /\ DigitPrefix(u) = u
        THEN Fin(IF neg THEN 0 - DigitsVal(u) ELSE DigitsVal(u))
      ELSE NaN

ToNumber(v) ==
  CASE v.t = "undefined" -> NaN
    [] v.t = "num" -> v.num
    [] OTHER -> StringToNumber(v.str)

\* v as a condition: undefined, NaN, 0 and the empty string are false.
truthy(v) ==
  CASE v.t = "undefined" -> FALSE
    [] v.t = "num" -> ~isNaN(v.num) /\ v.num # Fin(0)
    [] OTHER -> v.str # <<>>

\* String(v)
StringOf(v) ==
  CASE v.t = "undefined" -> <<"u", "n", "d", "e", "f", "i", "n", "e", "d">>
    [] v.t = "num" -> String(v.num)
    [] OTHER -> v.str

\* Line 42: (opt_value && !isNaN(opt_value)) ? String(opt_value) : '0'
normalisedValue(opt_value) ==
  IF truthy(opt_value) /\ ~isNaN(ToNumber(opt_value)) THEN StringOf(opt_value)
  ELSE <<"0">>

\* A constraint argument as setConstraints reads it: parseFloat, and the
\* default d for NaN.
constraint(v, d) ==
  LET x == parseFloat(StringOf(v)) IN IF isNaN(x) THEN d ELSE x

\* setValue(callValidator(getValue())) on a field without block and without
\* user validator, of precision p: null changes nothing.
revalidated(text, p) ==
  LET r == classValidatorBody(text, p) IN IF r = NULL THEN text ELSE r

\* new Blockly.FieldSlider(opt_value, opt_min, opt_max, opt_precision,
\* opt_validator) making the field this.  The base constructor is called
\* with (opt_value, opt_validator): it takes its second argument as a
\* minimum, so the field has no validator, and sets the value under its
\* default constraints; line 45 then sets the constraints.
FieldSlider(this, opt_value, opt_min, opt_max, opt_precision, opt_validator) ==
  LET value == normalisedValue(opt_value)
      precision == constraint(opt_precision, Fin(0))
  IN  /\ text_' = [text_ EXCEPT ![this] = revalidated(revalidated(value, 0), precision.n)]
      /\ min_' = [min_ EXCEPT ![this] = constraint(opt_min, NegInfinity)]
      /\ max_' = [max_ EXCEPT ![this] = constraint(opt_max, Infinity)]
      /\ precision_' = [precision_ EXCEPT ![this] = precision.n]
      /\ validator_' = [validator_ EXCEPT ![this] = "none"]
      /\ UNCHANGED <<sourceBlock_, slider_, sliders, listeners, changeEventKey_,
                     focusEventKey_, owner_, divSlider, htmlInput_, focus,
                     opened, last>>

\* options[key], undefined for an absent key.
option(options, key) ==
  IF key \in DOMAIN options THEN options[key] ELSE Undefined

\* Blockly.FieldSlider.fromJson(options)
fromJson(this, options) ==
  FieldSlider(this, option(options, "value"), option(options, "min"),
              option(options, "max"), option(options, "precision"), Undefined)

\* The arguments construction is tried with.
ValueChars == {"1", "2", "a", " ", "-"}
InitialValues ==
  {Undefined}
    \cup {Num(x) : x \in {Fin(0), Fin(12), Fin(-3), NaN, Infinity}}
    \cup {Str(s) : s \in UNION {[1..n -> ValueChars] : n \in 0..2}}
    \cup {Str(<<"1", "2", "a">>), Str(<<"Infinity">>)}
Minimums == {Undefined, Num(Fin(0))}
Maximums == {Undefined, Num(Fin(10)), Str(<<"1", "0">>)}
PrecisionArgs == {Undefined, Num(Fin(5)), Num(Fin(2))}
ValidatorArgs == {"none", "reject"}

\* The JSON objects fromJson is tried with: any of the four keys present or
\* absent, and a key fromJson does not know.
OptionKeys == {"value", "min", "max", "precision", "colour"}
OptionValues(key) ==
  CASE key = "value" -> {Num(Fin(12)), Str(<<"1", "2">>), Str(<<"a">>)}
    [] key = "min" -> {Num(Fin(0))}
    [] key = "max" -> {Num(Fin(10))}
    [] key = "precision" -> {Num(Fin(5))}
    [] OTHER -> {Str(<<"a">>)}
Options ==
  UNION { {o \in [K -> UNION {OptionValues(k) : k \in K}] :
             \A k \in K : o[k] \in OptionValues(k)} : K \in SUBSET OptionKeys }

InitConstruct ==
  /\ text_ = [f \in Fields |-> <<>>]
  /\ min_ = [f \in Fields |-> NegInfinity]
  /\ max_ = [f \in Fields |-> Infinity]
  /\ precision_ = [f \in Fields |-> 0]
  /\ validator_ = [f \in Fields |-> "none"]
  /\ sourceBlock_ = [f \in Fields |-> FALSE]
  /\ slider_ = [f \in Fields |-> 0]
  /\ sliders = <<>>
  /\ listeners = {}
  /\ changeEventKey_ = 0
  /\ focusEventKey_ = 0
  /\ owner_ = NoField
  /\ divSlider = 0
  /\ htmlInput_ = NoInput
  /\ focus = "none"
  /\ opened = [f \in Fields |-> FALSE]
  /\ last = NoOp
  /\ \/ \E v \in InitialValues, lo \in Minimums, hi \in Maximums,
           p \in PrecisionArgs, h \in ValidatorArgs :
           call = [fn |-> "FieldSlider", f |-> "f1", done |-> FALSE,
                   args |-> [value |-> v, min |-> lo, max |-> hi,
                             precision |-> p, validator |-> h],
                   options |-> <<>>]
     \/ \E o \in Options :
           call = [fn |-> "fromJson", f |-> "f1", done |-> FALSE,
                   args |-> [value |-> option(o, "value"), min |-> option(o, "min"),
                             max |-> option(o, "max"),
                             precision |-> option(o, "precision"),
                             validator |-> "none"],
                   options |-> o]

construct ==
  /\ ~call.done
  /\ call.fn = "FieldSlider"
  /\ FieldSlider(call.f, call.args.value, call.args.min, call.args.max,
                 call.args.precision, call.args.validator)
  /\ call' = [call EXCEPT !.done = TRUE]

constructFromJson ==
  /\ ~call.done
  /\ call.fn = "fromJson"
  /\ fromJson(call.f, call.options)
  /\ call' = [call EXCEPT !.done = TRUE]

NextConstruct == construct \/ constructFromJson

SpecConstruct == InitConstruct /\ [][NextConstruct]_vars

----------------------------------------------------------------------------
\* The synchronisation of the two surfaces, one notification at a time: a
\* user change raises a notification, and handling a notification may raise
\* the next one.  call.pending holds the notifications raised and not yet
\* handled, call.handled counts the handlers run for the user change.

\* Handlers run for one user change, beyond which the model does not follow
\* a chain of notifications.
MaxChain == 4

\* The slider field whose editor is open.
SyncField == "f1"
\* Texts typed and positions dragged to.
SyncTexts == {<<"7">>, <<"3">>, <<"5", "0">>, <<"a">>}
SyncDrags == {2, 7}

\* The CHANGE listener handing its value to the text-change handler in
\* place of writing the text input's value.
listenerNotifiesInput(val) == <<"input">>

\* The notifications the CHANGE listener raises when it commits val (lines
\* 106-109): setValue, the write of htmlInput.value and focus() run neither
\* the text-change handler nor the slider's setValue.
listenerNotifies(val) == <<>>

\* The field's editor is open on the slider of range [0, 10] at 0, as
\* showInlineEditor_ leaves it.
InitSync ==
  /\ text_ = [f \in Fields |-> <<"0">>]
  /\ min_ = [f \in Fields |-> Fin(0)]
  /\ max_ = [f \in Fields |-> Fin(10)]
  /\ \E p \in Precisions : precision_ = [f \in Fields |-> p]
  /\ \E h \in Validators : validator_ = [f \in Fields |-> h]
  /\ sourceBlock_ = [f \in Fields |-> TRUE]
  /\ slider_ = [f \in Fields |-> IF f = SyncField THEN 1 ELSE 0]
  /\ sliders = <<[field |-> SyncField, min |-> 0, max |-> 10, value |-> 0]>>
  /\ listeners = {<<1, "change">>, <<1, "focus">>}
  /\ changeEventKey_ = 1
  /\ focusEventKey_ = 1
  /\ owner_ = SyncField
  /\ divSlider = 1
  /\ htmlInput_ = [exists |-> TRUE, value |-> <<"0">>, oldValue_ |-> NULL,
                   defaultValue |-> <<"0">>]
  /\ focus = "htmlInput"
  /\ opened = [f \in Fields |-> f = SyncField]
  /\ last = [op |-> "open", f |-> SyncField]
  /\ call = [fn |-> "sync", f |-> SyncField, pending |-> <<>>, handled |-> 0]

\* The user types t into the text input: the browser raises the event that
\* onHtmlInputChange_ handles.
userTypes(t) ==
  /\ call.pending = <<>>
  /\ htmlInput_' = [htmlInput_ EXCEPT !.value = t]
  /\ focus' = "htmlInput"
  /\ call' = [call EXCEPT !.pending = <<"input">>, !.handled = 0]
  /\ last' = [op |-> "text", f |-> call.f]
  /\ UNCHANGED <<text_, min_, max_, precision_, validator_, sourceBlock_,
                 slider_, sliders, listeners, changeEventKey_, focusEventKey_,
                 owner_, divSlider, opened>>

\* The user drags the slider's thumb to v: the slider raises CHANGE.
userDrags(v) ==
  /\ call.pending = <<>>
  /\ v # sliders[divSlider].value
  /\ sliders' = [sliders EXCEPT ![divSlider].value = v]
  /\ call' = [call EXCEPT !.pending = <<"change">>, !.handled = 0]
  /\ last' = [op |-> "slider", f |-> call.f]
  /\ UNCHANGED <<text_, min_, max_, precision_, validator_, sourceBlock_,
                 slider_, listeners, changeEventKey_, focusEventKey_, owner_,
                 divSlider, htmlInput_, focus, opened>>

\* onHtmlInputChange_ runs for the text input's value: the base class
\* commits a changed text, and the slider is set from the committed value,
\* raising CHANGE when its value changes.
handleInput ==
  /\ call.pending # <<>>
  /\ Head(call.pending) = "input"
  /\ call.handled < MaxChain
  /\ LET this == call.f
         t == htmlInput_.value
         changed == t # htmlInput_.oldValue_
         tx == IF changed
                 THEN [text_ EXCEPT ![this] = setValue(this, @, t)]
               ELSE text_
         id == slider_[this]
         x == parseFloat(tx[this])
         fires == id # 0 /\ sliderAccepts(sliders[id], x) /\ sliders[id].value # x.n
     IN  /\ htmlInput_' = [htmlInput_ EXCEPT !.oldValue_ = t]
         /\ text_' = tx
         /\ sliders' = IF id # 0
                         THEN [sliders EXCEPT ![id] = sliderSetValue(@, x)]
                       ELSE sliders
         /\ call' = [call EXCEPT
                       !.pending = Tail(@) \o (IF fires THEN <<"change">> ELSE <<>>),
                       !.handled = @ + 1]
  /\ UNCHANGED <<min_, max_, precision_, validator_, sourceBlock_, slider_,
                 listeners, changeEventKey_, focusEventKey_, owner_, divSlider,
                 focus, opened, last>>

\* The CHANGE listener runs for the slider's value.
handleChange ==
  /\ call.pending # <<>>
  /\ Head(call.pending) = "change"
  /\ call.handled < MaxChain
  /\ LET v == sliders[divSlider].value
         after == dispatchChange(divSlider, v, text_, htmlInput_, focus)
         val == IF sourceBlock_[call.f]
                  THEN callValidator(call.f, String(Fin(v)))
                ELSE String(Fin(v))
         committed == <<divSlider, "change">> \in listeners /\ val # NULL
     IN  /\ text_' = after.text_
         /\ htmlInput_' = after.htmlInput_
         /\ focus' = after.focus
         /\ call' = [call EXCEPT
                       !.pending = Tail(@) \o
                         (IF committed THEN listenerNotifies(val)
                          ELSE <<>>),
                       !.handled = @ + 1]
  /\ UNCHANGED <<min_, max_, precision_, validator_, sourceBlock_, slider_,
                 sliders, listeners, changeEventKey_, focusEventKey_, owner_,
                 divSlider, opened, last>>

NextSync ==
  \/ \E t \in SyncTexts : userTypes(t)
  \/ \E v \in SyncDrags : userDrags(v)
  \/ handleInput
  \/ handleChange

SpecSync == InitSync /\ [][NextSync]_vars

----------------------------------------------------------------------------
\* The claims.

\* The field that handled the last operation.
lastField == last.f

\* C1: a field holds a slider (slider_) only while its inline editor is
\* open, the slider being the one shown in the container: once the editor
\* is closed or the field disposed, the field holds no slider.
C1_SliderOnlyWhileOpen ==
  \A f \in Fields :
    slider_[f] # 0 => (sourceBlock_[f] /\ owner_ = f /\ divSlider = slider_[f])

\* C2: right after dispose of a field no change or focus listener that an
\* open of that field registered is still registered.  (The claim adds that
\* both listener keys are cleared; dispose assigns neither.)
C2_NoListenerAfterDispose ==
  last.op = "dispose" =>
    \A id \in 1..Len(sliders) :
      sliders[id].field = lastField =>
        (<<id, "change">> \notin listeners /\ <<id, "focus">> \notin listeners)

\* C3: once a slider change or a text change has been handled, the value of
\* the slider the field holds equals the committed value.  Stated for the
\* committed values the slider can take (numbers within its range) and for
\* a field whose user validator rejects nothing.
C3_SliderEqualsCommitted ==
  (/\ last.op \in {"slider", "text"}
   /\ slider_[lastField] # 0
   /\ validator_[lastField] = "none"
   /\ sliderAccepts(sliders[slider_[lastField]], parseFloat(text_[lastField])))
  => Fin(sliders[slider_[lastField]].value) = parseFloat(text_[lastField])

\* The number a finite number n becomes when rounded to precision p.
roundedTo(n, p) == IF p # 0 THEN MathRound(n, p) * p ELSE n

\* C4: a text change the handler takes up (the text differs from the one it
\* handled last), of a numeric text, on a field without user validator,
\* commits the number typed, rounded to the precision and nothing else:
\* also when it lies outside [min_, max_] and a slider is set from it.
C4_CommittedNotClamped ==
  [][ (/\ last'.op = "text"
       /\ htmlInput_'.oldValue_ # htmlInput_.oldValue_
       /\ validator_[last'.f] = "none"
       /\ isFinite(parseFloat(htmlInput_'.oldValue_)))
      => parseFloat(text_'[last'.f]) =
           Fin(roundedTo(parseFloat(htmlInput_'.oldValue_).n, precision_[last'.f]))
    ]_vars

\* C4 witness: 50 was typed and committed while the slider of range
\* [0, 10] is shown.
C4_Witness ==
  /\ last.op = "text"
  /\ htmlInput_.oldValue_ = <<"5", "0">>
  /\ text_[lastField] = <<"5", "0">>
  /\ divSlider # 0
  /\ slider_[lastField] = divSlider
  /\ sliders[divSlider].max = 10

\* C5: a slider change the validator rejects leaves the committed value and
\* the text input's value as they were.
C5_RejectedChangeDiscarded ==
  [][ (/\ last'.op = "slider"
       /\ callValidator(last'.f, String(Fin(sliders'[divSlider].value))) = NULL)
      => (text_' = text_ /\ htmlInput_' = htmlInput_)
    ]_vars

\* C5 witness: the registered listener ran for a drag to 7 and the
\* validator rejected it.
C5_Witness ==
  /\ last.op = "slider"
  /\ validator_[lastField] = "reject"
  /\ <<divSlider, "change">> \in listeners
  /\ sliders[divSlider].value = 7
  /\ text_[lastField] # <<"7">>

\* C6: after a slider change to a value the validator accepts, the
\* committed value and the text input's value are the accepted value.
C6_AcceptedChangeCommitted ==
  LET accepted == callValidator(lastField, String(Fin(sliders[divSlider].value)))
  IN  (last.op = "slider" /\ accepted # NULL)
        => (text_[lastField] = accepted /\ htmlInput_.value = accepted)

\* C7: after an open of a field whose range is unbounded the field holds no
\* slider.
C7_NoSliderForUnboundedRange ==
  (/\ last.op = "open"
   /\ (max_[lastField] = Infinity \/ min_[lastField] = NegInfinity))
  => slider_[lastField] = 0

\* C8: dispose of a field whose editor never opened unregisters no listener.
C8_DisposeUnopenedKeepsListeners ==
  [][ (last'.op = "dispose" /\ ~opened[last'.f]) => listeners' = listeners ]_vars

\* C9: dispose of a field hides the container exactly when the field owns
\* it; when another field owns it, that field's editor stays as it is.
C9_DisposeHidesOnlyOwn ==
  [][ last'.op = "dispose" =>
        IF owner_ = last'.f THEN owner_' = NoField
        ELSE /\ owner_' = owner_
             /\ divSlider' = divSlider
             /\ htmlInput_' = htmlInput_
    ]_vars

\* C9 witness: a field was disposed while the other field's slider is shown.
C9_Witness ==
  /\ last.op = "dispose"
  /\ owner_ \in Fields \ {lastField}
  /\ divSlider # 0
  /\ slider_[owner_] = divSlider

\* |p|
absolute(p) == IF p < 0 THEN 0 - p ELSE p

\* The text r is the canonical text of a finite number that is a multiple
\* of the precision p (of any finite number when p is 0).
finiteMultiple(r, p) ==
  LET n == parseFloat(r)
  IN  /\ isFinite(n)
      /\ String(n) = r
      /\ p # 0 => n.n % absolute(p) = 0

\* C10 as claimed: classValidator returns null or the text of a finite
\* number that is a multiple of the precision.
C10_FiniteMultipleOrNull ==
  call.done =>
    \/ call.result = NULL
    \/ finiteMultiple(call.result, precision_[call.f])

\* C10 as amended: classValidator returns null, or the text of a finite
\* number that is a multiple of the precision, or, for a text that parses
\* to an infinity, the text of that infinity.
C10_MultipleOrInfinityOrNull ==
  call.done =>
    \/ call.result = NULL
    \/ finiteMultiple(call.result, precision_[call.f])
    \/ /\ call.result \in {String(Infinity), String(NegInfinity)}
       /\ call.text # NULL
       /\ parseFloat(StripCommas(ReplaceO(call.text))) = parseFloat(call.result)

\* C10 witness: on a field of precision 5 the text Infinity is returned as
\* it is.
C10_Witness ==
  /\ call.done
  /\ precision_[call.f] = 5
  /\ call.text = <<"Infinity">>
  /\ call.result = <<"Infinity">>

\* The reference function classValidator is compared with: null gives null;
\* otherwise O and o become 0, commas go, the text is parsed as a float, a
\* parse failure gives null, a finite n of a field with a precision gives
\* String(round(n / precision) * precision), and any other n gives String(n).
referenceValidator(text, precision) ==
  IF text = NULL THEN NULL
  ELSE LET n == parseFloat(StripCommas(ReplaceO(text)))
       IN  IF isNaN(n) THEN NULL
           ELSE IF isFinite(n) /\ precision # 0
             THEN String(Fin(MathRound(n.n, precision) * precision))
           ELSE String(n)

\* A text of which the replacements leave nothing reads as the text 0.
emptyAsZero(text) ==
  IF text # NULL /\ StripCommas(ReplaceO(text)) = <<>> THEN <<"0">> ELSE text

\* C11 as claimed: classValidator returns what the reference function
\* returns, for every text and precision.
C11_EqualsReference ==
  call.done => call.result = referenceValidator(call.text, precision_[call.f])

\* C11 as amended: classValidator returns what the reference function
\* returns, where a text that is empty once the commas are removed is
\* parsed as 0 (and so gives "0", not null).
C11_EqualsReferenceEmptyAsZero ==
  call.done =>
    call.result = referenceValidator(emptyAsZero(call.text), precision_[call.f])

\* C11 witness: the text of one comma, on a field of precision 5, gives "0".
C11_Witness ==
  /\ call.done
  /\ call.text = <<",">>
  /\ precision_[call.f] = 5
  /\ call.result = <<"0">>

\* C11, the examples of the claim: O5 gives 5 and ,1,000 gives 1000 without
\* precision, 13 gives 15 with precision 5.
C11_Examples ==
  call.done =>
    /\ (call.text = <<"O", "5">> /\ precision_[call.f] = 0)
         => call.result = <<"5">>
    /\ (call.text = <<",", "1", ",", "0", "0", "0">> /\ precision_[call.f] = 0)
         => call.result = <<"1", "0", "0", "0">>
    /\ (call.text = <<"1", "3">> /\ precision_[call.f] = 5)
         => call.result = <<"1", "5">>

\* C12: after a text change handled while the field's slider is shown, the
\* slider is at the committed value parsed as a float, and at 0 when the
\* committed value is not numeric.  Stated for the positions the slider can
\* take (0, and the numbers within its range).
C12_SliderSetFromText ==
  LET id == slider_[lastField]
      x == parseFloat(text_[lastField])
      position == IF isNaN(x) THEN Fin(0) ELSE x
  IN  (/\ last.op = "text"
       /\ id # 0
       /\ divSlider = id
       /\ sliderAccepts(sliders[id], position))
      => Fin(sliders[id].value) = position

\* C13: while a field's editor is open with a slider, the focus is on the
\* text input after a focus notification on the slider's root element and
\* after a slider change the validator accepts, never left on the slider.
C13_FocusOnTextInput ==
  /\ last.op = "focus" => focus = "htmlInput"
  /\ (/\ last.op = "slider"
      /\ callValidator(lastField, String(Fin(sliders[divSlider].value))) # NULL)
     => focus = "htmlInput"

\* C14: an open of the inline editor that was not requested as quiet ends
\* with the focus on the text input (focused and selected by lines 93-94),
\* and an open requested as quiet does not put the focus there.
C14_FocusUnlessQuiet ==
  [][ \A f \in Fields :
        /\ showInlineEditor_(f, FALSE) => focus' = "htmlInput"
        /\ showInlineEditor_(f, TRUE) => focus' # "htmlInput"
    ]_vars

\* The value v reads as a number: a number other than NaN, or a string that
\* is, white space apart, the whole text of a number.
numericValue(v) ==
  \/ v.t = "num" /\ ~isNaN(v.num)
  \/ v.t = "str" /\ SkipWhite(v.str) # <<>> /\ ~isNaN(StringToNumber(v.str))

\* The number x made a multiple of the precision p.
roundedNumber(x, p) == IF isFinite(x) THEN Fin(roundedTo(x.n, p)) ELSE x

\* C15: construction (directly, or by fromJson from the keys value, min,
\* max and precision, an absent key being undefined and any other key
\* ignored) leaves a numeric initial value as the text of its number (at the
\* field's precision), and makes a non-numeric or absent one "0"; absent
\* constraints are the defaults (no bound, no rounding).
C15_ConstructionNormalises ==
  call.done =>
    LET f == call.f
        v == call.args.value
        o == call.options
    IN  /\ IF numericValue(v)
             THEN /\ parseFloat(text_[f]) = roundedNumber(ToNumber(v), precision_[f])
                  /\ String(parseFloat(text_[f])) = text_[f]
           ELSE text_[f] = <<"0">>
        /\ call.fn = "fromJson" =>
             /\ v = option(o, "value")
             /\ min_[f] = (IF "min" \in DOMAIN o THEN o["min"].num ELSE NegInfinity)
             /\ max_[f] = (IF "max" \in DOMAIN o THEN o["max"].num ELSE Infinity)
             /\ precision_[f] =
                  (IF "precision" \in DOMAIN o THEN o["precision"].num.n ELSE 0)

\* C16: the editors being open one at a time, dispose of one field leaves
\* the change and focus listeners of the slider shown for another field, the
\* one whose editor is open, registered.
C16_DisposeKeepsOpenFieldListeners ==
  [][ (/\ last'.op = "dispose"
       /\ owner_ \in Fields \ {last'.f}
       /\ divSlider # 0)
      => /\ <<divSlider, "change">> \in listeners
              => <<divSlider, "change">> \in listeners'
         /\ <<divSlider, "focus">> \in listeners
              => <<divSlider, "focus">> \in listeners'
    ]_vars

\* C17: one user change (a text edit or a slider drag) is followed by at
\* most two handler runs, after which no notification is pending: the text
\* handler may raise one slider change, and the slider change handler raises
\* nothing.
C17_ChainBounded ==
  /\ call.handled <= 2
  /\ call.handled = 2 => call.pending = <<>>
  /\ Len(call.pending) <= 1

\* C17 witness: a text edit set the slider, the slider's change ran the
\* listener, which wrote the text input, and nothing is pending.
C17_Witness ==
  /\ last.op = "text"
  /\ call.handled = 2
  /\ call.pending = <<>>
  /\ htmlInput_.oldValue_ = <<"7">>
  /\ htmlInput_.value = <<"5">>
  /\ sliders[divSlider].value = 5

====
